---- MODULE Spec2Model ----
(***************************************************************************)
(* Model of the C-ABI wrapper around BestAudioSource                       *)
(* (bestsource-sys/wrapper/wrapper.cpp, wrapper.h).                        *)
(*                                                                         *)
(* Every entry point casts the opaque handle, forwards to the underlying   *)
(* source inside a try block and turns what the underlying call did        *)
(* (normal return, a std::exception, anything else) into a status.  The    *)
(* underlying library is the environment: what it does in a call is an     *)
(* input of the action that models the entry point.                        *)
(***************************************************************************)
EXTENDS Integers, Sequences, FiniteSets, TLC

\* ---------------------------------------------------------------- bounds
MaxHandles == 2
MaxStdExceptions == 1

\* ---------------------------------------------------------------- values
NULL == 0

Handles == 1..MaxHandles

\* What the underlying call did: returned, threw a std::exception, threw
\* something that is not a std::exception.
Outcomes == {"ok", "std_exception", "other"}

\* ex.what() of the std::exception thrown.
Whats == {"cannot open", "cancelled"}

\* The Progress argument of open as the header declares it: a null callback,
\* one that returns 0 (continue), one that returns non-zero (cancel).
ProgressArgs == {"null", "continue", "cancel"}

\* An integer of w bits is a little-endian sequence of w/16 limbs, each
\* 0..2^16-1, so that 64-bit and 32-bit values keep their width.
Limb == 2^16
SignLimb == 2^15

\* int64_t sample counts the underlying GetExactDuration can return:
\* 48000, 2^31-1, 2^31, 2^32+5.
Durations ==
    { <<48000, 0, 0, 0>>, <<Limb - 1, SignLimb - 1, 0, 0>>,
      <<0, SignLimb, 0, 0>>, <<5, 0, 1, 0>> }

\* Indeterminate contents of an `int value` that was never assigned.
JunkInt32 == { <<0, 0>>, <<Limb - 1, Limb - 1>> }

\* Track indices (int) the underlying GetTrack can return: 0 and 1.
Tracks == { <<0, 0>>, <<1, 0>> }

\* Start-time differences (double), in whole milliseconds.
StartTimes == {0, 40}
JunkDouble == {0, 7}

\* Indeterminate contents of a `void *value` that was never assigned: null,
\* the address of some object, or a wild address.
JunkPointer == 0..(MaxHandles + 1)

\* int64_t -> int in `ret.value = BAS->GetExactDuration()`: the low 32 bits.
NarrowToInt(v) == <<v[1], v[2]>>

\* The int the caller reads, widened back to 64 bits (sign extension).
WidenToInt64(v) ==
    IF v[2] >= SignLimb THEN <<v[1], v[2], Limb - 1, Limb - 1>>
                        ELSE <<v[1], v[2], 0, 0>>

\* AudioProperties of the underlying source.
SourceProps ==
    [IsFloat |-> 0, BytesPerSample |-> 2, BitsPerSample |-> 16,
     SampleRate |-> 48000, Channels |-> 2, ChannelLayout |-> 3,
     NumSamples |-> <<48000, 0, 0, 0>>, StartTime |-> 0]

\* Indeterminate contents of a BestAudioSource_AudioProperties never filled.
JunkProps ==
    { [IsFloat |-> 0, BytesPerSample |-> 0, BitsPerSample |-> 0,
       SampleRate |-> 0, Channels |-> 0, ChannelLayout |-> 0,
       NumSamples |-> <<0, 0, 0, 0>>, StartTime |-> 0],
      [IsFloat |-> 1, BytesPerSample |-> 7, BitsPerSample |-> 9,
       SampleRate |-> 1, Channels |-> 5, ChannelLayout |-> 1,
       NumSamples |-> <<1, 2, 3, 4>>, StartTime |-> 7] }

\* The value field of a return carrier, by its C type; NoValue where the entry
\* point returns a bare int status.
PointerValue(p) == [pointer |-> p]
IntValue(v) == [int |-> v]
Int64Value(v) == [int64 |-> v]
DoubleValue(v) == [double |-> v]
NoValue == [void |-> TRUE]

\* ----------------------------------------------------------------- state
VARIABLES
    handles,   \* handle -> "Unborn" | "Opened" | "Closed"
    source,    \* handle -> what the underlying source was constructed with
    supplied,  \* handle -> the Progress argument the caller gave to open
    cerr,      \* std::cerr: the tokens inserted into it, in order
    last       \* the last call: entry point, handle, underlying outcome, return

vars == <<handles, source, supplied, cerr, last>>


\* ------------------------------------------------- what a call hands back
\* The status (the `error` field or the int returned), the value field, whether
\* the value field was assigned in this call, the tokens inserted into
\* std::cerr, and whether the call returned at all (FALSE: the exception left
\* the entry point).
Return(error, value, assigned, out, returned) ==
    [error |-> error, value |-> value, assigned |-> assigned, out |-> out,
     returned |-> returned]

\* std::cerr << "what(): " << ex.what();
Diagnostic(what) == <<"what(): ", what>>

\* BestAudioSource_new: the try block throws before `ret.error = 0`, so the
\* handlers set ret.error and ret.value keeps its indeterminate contents.
BestAudioSource_new_ret(outcome, what, ptr, junk) ==
    IF outcome = "ok" THEN Return(0, PointerValue(ptr), TRUE, <<>>, TRUE)
    ELSE IF outcome = "std_exception"
         THEN Return(2, PointerValue(junk), FALSE, Diagnostic(what), TRUE)
         ELSE Return(1, PointerValue(junk), FALSE, <<>>, TRUE)

\* BestAudioSource_delete without its catch (...) handler: an exception that
\* is not a std::exception leaves the entry point.
delete_ret_no_catch_all(outcome, what) ==
    IF outcome = "ok" THEN Return(0, NoValue, FALSE, <<>>, TRUE)
    ELSE IF outcome = "std_exception"
         THEN Return(2, NoValue, FALSE, Diagnostic(what), TRUE)
         ELSE Return(0, NoValue, FALSE, <<>>, FALSE)

BestAudioSource_delete_ret(outcome, what) ==
    IF outcome = "ok" THEN Return(0, NoValue, FALSE, <<>>, TRUE)
    ELSE IF outcome = "std_exception"
         THEN Return(2, NoValue, FALSE, Diagnostic(what), TRUE)
         ELSE Return(1, NoValue, FALSE, <<>>, TRUE)

\* BestAudioSource_GetTrack: `ret.error = 0` precedes the call; both handlers
\* overwrite ret.error of the outer ret.
BestAudioSource_GetTrack_ret(outcome, what, result, junk) ==
    LET ret == [error |-> 0, value |-> IntValue(junk)] IN
    IF outcome = "ok" THEN Return(ret.error, IntValue(result), TRUE, <<>>, TRUE)
    ELSE IF outcome = "std_exception"
         THEN Return(2, ret.value, FALSE, Diagnostic(what), TRUE)
         ELSE Return(1, ret.value, FALSE, <<>>, TRUE)

BestAudioSource_SetMaxCacheSize_ret(outcome, what) ==
    IF outcome = "ok" THEN Return(0, NoValue, FALSE, <<>>, TRUE)
    ELSE IF outcome = "std_exception"
         THEN Return(2, NoValue, FALSE, Diagnostic(what), TRUE)
         ELSE Return(1, NoValue, FALSE, <<>>, TRUE)

\* BestAudioSource_SetSeekPreRoll with an error flag that outlives the call:
\* it fails when the call before it failed.
SetSeekPreRoll_ret_sticky(outcome, what) ==
    IF outcome = "std_exception"
    THEN Return(2, NoValue, FALSE, Diagnostic(what), TRUE)
    ELSE IF outcome = "other" \/ last.error # 0
         THEN Return(1, NoValue, FALSE, <<>>, TRUE)
         ELSE Return(0, NoValue, FALSE, <<>>, TRUE)

BestAudioSource_SetSeekPreRoll_ret(outcome, what) ==
    IF outcome = "ok" THEN Return(0, NoValue, FALSE, <<>>, TRUE)
    ELSE IF outcome = "std_exception"
         THEN Return(2, NoValue, FALSE, Diagnostic(what), TRUE)
         ELSE Return(1, NoValue, FALSE, <<>>, TRUE)

\* BestAudioSource_GetRelativeStartTime: `ret.error = 0` precedes the call.
\* The catch (...) handler declares its own `BSW_DoubleWithError ret` and sets
\* the error of that one; the function returns the outer ret.
BestAudioSource_GetRelativeStartTime_ret(outcome, what, result, junk) ==
    LET ret == [error |-> 0, value |-> DoubleValue(junk)] IN
    IF outcome = "ok" THEN Return(ret.error, DoubleValue(result), TRUE, <<>>, TRUE)
    ELSE IF outcome = "std_exception"
         THEN Return(2, ret.value, FALSE, Diagnostic(what), TRUE)
         ELSE LET inner == [error |-> 1, value |-> DoubleValue(junk)] IN
              Return(ret.error, ret.value, FALSE, <<>>, TRUE)

\* BestAudioSource_GetExactDuration: as GetRelativeStartTime, and the int64_t
\* result is stored in the `int value` of BSW_IntWithError.
BestAudioSource_GetExactDuration_ret(outcome, what, result, junk) ==
    LET ret == [error |-> 0, value |-> IntValue(junk)] IN
    IF outcome = "ok"
    THEN Return(ret.error, IntValue(NarrowToInt(result)), TRUE, <<>>, TRUE)
    ELSE IF outcome = "std_exception"
         THEN Return(2, ret.value, FALSE, Diagnostic(what), TRUE)
         ELSE LET inner == [error |-> 1, value |-> IntValue(junk)] IN
              Return(ret.error, ret.value, FALSE, <<>>, TRUE)

\* BestAudioSource_GetAudioProperties: the fields are copied one by one after
\* the call returned; the handlers set BAS_AP.error only.
BestAudioSource_GetAudioProperties_ret(outcome, what, AP, junk) ==
    IF outcome = "ok"
    THEN Return(0,
                [IsFloat |-> AP.IsFloat, BytesPerSample |-> AP.BytesPerSample,
                 BitsPerSample |-> AP.BitsPerSample,
                 SampleRate |-> AP.SampleRate, Channels |-> AP.Channels,
                 ChannelLayout |-> AP.ChannelLayout,
                 NumSamples |-> AP.NumSamples, StartTime |-> AP.StartTime],
                TRUE, <<>>, TRUE)
    ELSE IF outcome = "std_exception"
         THEN Return(2, junk, FALSE, Diagnostic(what), TRUE)
         ELSE Return(1, junk, FALSE, <<>>, TRUE)

BestAudioSource_GetPlanarAudio_ret(outcome, what) ==
    IF outcome = "ok" THEN Return(0, NoValue, FALSE, <<>>, TRUE)
    ELSE IF outcome = "std_exception"
         THEN Return(2, NoValue, FALSE, Diagnostic(what), TRUE)
         ELSE Return(1, NoValue, FALSE, <<>>, TRUE)

\* BestAudioSource_GetPackedAudio without the write to std::cerr.
GetPackedAudio_ret_silent(outcome, what) ==
    IF outcome = "ok" THEN Return(0, NoValue, FALSE, <<>>, TRUE)
    ELSE IF outcome = "std_exception"
         THEN Return(2, NoValue, FALSE, <<>>, TRUE)
         ELSE Return(1, NoValue, FALSE, <<>>, TRUE)

BestAudioSource_GetPackedAudio_ret(outcome, what) ==
    IF outcome = "ok" THEN Return(0, NoValue, FALSE, <<>>, TRUE)
    ELSE IF outcome = "std_exception"
         THEN Return(2, NoValue, FALSE, Diagnostic(what), TRUE)
         ELSE Return(1, NoValue, FALSE, <<>>, TRUE)

\* ------------------------------------------------------- handle lifecycle
\* A new-expression whose object outlives a throwing constructor.
new_expr_always_opened(outcome) == "Opened"

\* `new BestAudioSource(...)`: the object exists when the constructor
\* returned; when it throws the storage is released and no object exists.
new_expr(outcome) == IF outcome = "ok" THEN "Opened" ELSE "Unborn"

\* A delete-expression that keeps the object when its destructor throws.
delete_expr_keeps_on_failure(outcome) ==
    IF outcome = "ok" THEN "Closed" ELSE "Opened"

\* `delete BAS`: the object is gone and its storage released whether or not
\* the destructor threw.
delete_expr(outcome) == "Closed"

\* The progress argument `new BestAudioSource(...)` is given: the definition
\* takes no Progress parameter and passes nullptr.
ConstructedProgress(Progress) == "null"

\* The underlying source during a call that may scan the stream: a scan run
\* with a callback that asks to stop does not complete.
ScanOutcomes(progress, scan) ==
    IF scan /\ progress = "cancel" THEN Outcomes \ {"ok"} ELSE Outcomes

\* ---------------------------------------------------------------- actions
\* What the underlying source can do in the next call: it throws at most
\* MaxStdExceptions std::exceptions in a run (each leaves two tokens in cerr).
Throwable(S) ==
    IF Len(cerr) < 2 * MaxStdExceptions THEN S ELSE S \ {"std_exception"}

\* The record of a call: the entry point, the handle, what the underlying call
\* did (outcome, what() of its exception, the value it returned, whether it
\* scanned the stream), whether the call before it was on the same handle and
\* returned a non-zero status, and what the entry point handed back.
Call(op, h, outcome, what, result, scan, prior, r) ==
    [op |-> op, h |-> h, outcome |-> outcome,
     what |-> what, result |-> result,
     scan |-> scan, prior |-> prior,
     error |-> r.error, value |-> r.value, assigned |-> r.assigned,
     returned |-> r.returned]

\* What the underlying call can carry for an outcome: a what() only when it
\* threw a std::exception, a result only when it returned.  The indeterminate
\* contents of the return struct matter only when the value is not assigned.
WhatsOf(outcome) == IF outcome = "std_exception" THEN Whats ELSE {""}
ResultsOf(outcome, R) == IF outcome = "ok" THEN R ELSE {CHOOSE r \in R : TRUE}
JunkOf(outcome, J) == IF outcome = "ok" THEN {CHOOSE j \in J : TRUE} ELSE J
Returned(outcome, result) == IF outcome = "ok" THEN result ELSE NoValue

\* The call before this one was made on handle h and returned non-zero.
FailedBefore(h) == last.op # "none" /\ last.h = h /\ last.error # 0

\* A call on an Opened handle that is neither open nor close: the handle and
\* the source are left alone, std::cerr receives what the handlers wrote.
Forward(op, h, outcome, what, result, scan, r) ==
    /\ cerr' = cerr \o r.out
    /\ last' = Call(op, h, outcome, what, result, scan, FailedBefore(h), r)
    /\ UNCHANGED <<handles, source, supplied>>

\* The object operator new hands out: one that never existed before.
Fresh(h) ==
    /\ handles[h] = "Unborn"
    /\ \A g \in Handles : handles[g] = "Unborn" => h <= g

BestAudioSource_new ==
    /\ \E h \in {g \in Handles : Fresh(g)}, outcome \in Throwable(Outcomes) :
       \E Progress \in ProgressArgs, what \in WhatsOf(outcome),
          junk \in JunkOf(outcome, JunkPointer) :
         LET r == BestAudioSource_new_ret(outcome, what, h, junk) IN
         /\ handles' = [handles EXCEPT ![h] = new_expr(outcome)]
         /\ source' = [source EXCEPT ![h] =
                IF outcome = "ok"
                THEN [Progress |-> ConstructedProgress(Progress)] ELSE @]
         /\ supplied' = [supplied EXCEPT ![h] =
                IF outcome = "ok" THEN Progress ELSE @]
         /\ cerr' = cerr \o r.out
         /\ last' = Call("new", h, outcome, what,
                         Returned(outcome, PointerValue(h)), FALSE, FALSE, r)

BestAudioSource_delete(h) ==
    /\ handles[h] = "Opened"
    /\ \E outcome \in Throwable(Outcomes) : \E what \in WhatsOf(outcome) :
         LET r == BestAudioSource_delete_ret(outcome, what) IN
         /\ handles' = [handles EXCEPT ![h] = delete_expr(outcome)]
         /\ cerr' = cerr \o r.out
         /\ last' = Call("delete", h, outcome, what, NoValue, FALSE,
                         FailedBefore(h), r)
         /\ source' = [source EXCEPT ![h] = [Progress |-> "null"]]
         /\ supplied' = [supplied EXCEPT ![h] = "null"]

BestAudioSource_GetTrack(h) ==
    /\ handles[h] = "Opened"
    /\ \E outcome \in Throwable(Outcomes) :
       \E what \in WhatsOf(outcome), result \in ResultsOf(outcome, Tracks),
          junk \in JunkOf(outcome, JunkInt32) :
         Forward("GetTrack", h, outcome, what,
                 Returned(outcome, IntValue(result)), FALSE,
                 BestAudioSource_GetTrack_ret(outcome, what, result, junk))

BestAudioSource_SetMaxCacheSize(h) ==
    /\ handles[h] = "Opened"
    /\ \E outcome \in Throwable(Outcomes) : \E what \in WhatsOf(outcome) :
         Forward("SetMaxCacheSize", h, outcome, what, NoValue, FALSE,
                 BestAudioSource_SetMaxCacheSize_ret(outcome, what))

BestAudioSource_SetSeekPreRoll(h) ==
    /\ handles[h] = "Opened"
    /\ \E outcome \in Throwable(Outcomes) : \E what \in WhatsOf(outcome) :
         Forward("SetSeekPreRoll", h, outcome, what, NoValue, FALSE,
                 BestAudioSource_SetSeekPreRoll_ret(outcome, what))

BestAudioSource_GetRelativeStartTime(h) ==
    /\ handles[h] = "Opened"
    /\ \E outcome \in Throwable(Outcomes) :
       \E what \in WhatsOf(outcome), result \in ResultsOf(outcome, StartTimes),
          junk \in JunkOf(outcome, JunkDouble) :
         Forward("GetRelativeStartTime", h, outcome, what,
                 Returned(outcome, DoubleValue(result)), FALSE,
                 BestAudioSource_GetRelativeStartTime_ret(outcome, what,
                                                          result, junk))

BestAudioSource_GetExactDuration(h) ==
    /\ handles[h] = "Opened"
    /\ \E scan \in BOOLEAN :
       \E outcome \in Throwable(ScanOutcomes(source[h].Progress, scan)) :
         \E what \in WhatsOf(outcome), result \in ResultsOf(outcome, Durations),
            junk \in JunkOf(outcome, JunkInt32) :
           Forward("GetExactDuration", h, outcome, what,
                   Returned(outcome, Int64Value(result)), scan,
                   BestAudioSource_GetExactDuration_ret(outcome, what,
                                                        result, junk))

BestAudioSource_GetAudioProperties(h) ==
    /\ handles[h] = "Opened"
    /\ \E outcome \in Throwable(Outcomes) :
       \E what \in WhatsOf(outcome), junk \in JunkOf(outcome, JunkProps) :
         Forward("GetAudioProperties", h, outcome, what,
                 Returned(outcome, SourceProps), FALSE,
                 BestAudioSource_GetAudioProperties_ret(outcome, what,
                                                        SourceProps, junk))

BestAudioSource_GetPlanarAudio(h) ==
    /\ handles[h] = "Opened"
    /\ \E scan \in BOOLEAN :
       \E outcome \in Throwable(ScanOutcomes(source[h].Progress, scan)) :
         \E what \in WhatsOf(outcome) :
           Forward("GetPlanarAudio", h, outcome, what, NoValue, scan,
                   BestAudioSource_GetPlanarAudio_ret(outcome, what))

BestAudioSource_GetPackedAudio(h) ==
    /\ handles[h] = "Opened"
    /\ \E scan \in BOOLEAN :
       \E outcome \in Throwable(ScanOutcomes(source[h].Progress, scan)) :
         \E what \in WhatsOf(outcome) :
           Forward("GetPackedAudio", h, outcome, what, NoValue, scan,
                   BestAudioSource_GetPackedAudio_ret(outcome, what))

Init ==
    /\ handles = [h \in Handles |-> "Unborn"]
    /\ source = [h \in Handles |-> [Progress |-> "null"]]
    /\ supplied = [h \in Handles |-> "null"]
    /\ cerr = <<>>
    /\ last = Call("none", NULL, "ok", "", NoValue, FALSE, FALSE,
                   Return(0, NoValue, FALSE, <<>>, TRUE))

Next ==
    \/ BestAudioSource_new
    \/ \E h \in Handles : BestAudioSource_delete(h)
    \/ \E h \in Handles : BestAudioSource_GetTrack(h)
    \/ \E h \in Handles : BestAudioSource_SetMaxCacheSize(h)
    \/ \E h \in Handles : BestAudioSource_SetSeekPreRoll(h)
    \/ \E h \in Handles : BestAudioSource_GetRelativeStartTime(h)
    \/ \E h \in Handles : BestAudioSource_GetExactDuration(h)
    \/ \E h \in Handles : BestAudioSource_GetAudioProperties(h)
    \/ \E h \in Handles : BestAudioSource_GetPlanarAudio(h)
    \/ \E h \in Handles : BestAudioSource_GetPackedAudio(h)

Spec == Init /\ [][Next]_vars

\* ----------------------------------------------------------------- claims
ValueOps ==
    {"new", "GetTrack", "GetRelativeStartTime", "GetExactDuration",
     "GetAudioProperties"}

ScanOps == {"GetExactDuration", "GetPlanarAudio", "GetPackedAudio"}

\* C1: in every entry point, an underlying call that fails with something that
\* is not a std::exception makes the call return status 1.
C1_UnstructuredFailureIsStatus1 ==
    (last.op # "none" /\ last.outcome = "other") => last.error = 1

\* C2: when the constructor fails in BestAudioSource_new, the status is
\* non-zero, the pointer handed back is null and no handle exists.
C2_FailedOpenReturnsNull ==
    (last.op = "new" /\ last.outcome # "ok")
        => /\ last.error # 0
           /\ last.value = PointerValue(NULL)
           /\ handles[last.h] = "Unborn"

\* C3: every call of every entry point returns to its caller, whatever the
\* underlying call did, with a status in {0, 1, 2}.
C3_EveryCallReturnsStatus ==
    last.op # "none" => (last.returned /\ last.error \in {0, 1, 2})

C3_Witness ==
    /\ last.op = "delete"
    /\ last.outcome = "other"
    /\ last.returned
    /\ last.error = 1

\* C4: a call appends to std::cerr exactly when it returns status 2, and what
\* it appends is "what(): " followed by the exception's what(); a call that
\* returns 0 or 1 leaves std::cerr as it was.
C4_SinkWrittenIffStatus2 ==
    [][ /\ last'.error = 2
            => /\ last'.outcome = "std_exception"
               /\ cerr' = cerr \o <<"what(): ", last'.what>>
        /\ last'.error # 2 => cerr' = cerr ]_vars

C4_Witness ==
    /\ last.op = "GetPackedAudio"
    /\ last.error = 2
    /\ last.what = "cancelled"
    /\ cerr = <<"what(): ", "cancelled">>

\* C5: a value-returning entry point returns status 0 only when the underlying
\* call completed, so that the value field was assigned in that call.
C5_Status0MeansSuccess ==
    (last.op \in ValueOps /\ last.error = 0)
        => (last.outcome = "ok" /\ last.assigned)

\* C6: BestAudioSource_delete on an Opened handle leaves it Closed whatever it
\* returns; a failing teardown is reported as 2 (std::exception) or 1 (other).
C6_CloseAlwaysDestroys ==
    last.op = "delete"
        => /\ handles[last.h] = "Closed"
           /\ last.outcome = "ok" => last.error = 0
           /\ last.outcome = "std_exception" => last.error = 2
           /\ last.outcome = "other" => last.error = 1

C6_Witness ==
    /\ last.op = "delete"
    /\ last.outcome = "std_exception"
    /\ last.error = 2
    /\ handles[last.h] = "Closed"

\* C7: no error state is kept on the handle: after a call other than close
\* returned non-zero the handle is still Opened, and the status of every call
\* on a handle, whatever earlier calls on it returned, is decided by its own
\* underlying outcome (0 when the underlying call succeeds, 2 when it throws
\* a std::exception).
C7_NoErrorStateOnHandle ==
    /\ (last.op \notin {"none", "new", "delete"} /\ last.error # 0)
           => handles[last.h] = "Opened"
    /\ last.op \notin {"none", "new"}
           => /\ last.outcome = "ok" => last.error = 0
              /\ last.outcome = "std_exception" => last.error = 2

C7_Witness ==
    /\ last.op = "SetSeekPreRoll"
    /\ last.prior
    /\ last.outcome = "ok"
    /\ last.error = 0
    /\ handles[last.h] = "Opened"

\* C8: on status 0 the value GetExactDuration hands back equals the 64-bit
\* sample count the underlying GetExactDuration returned, also above 2^31 - 1.
C8_ExactDurationIs64Bit ==
    (last.op = "GetExactDuration" /\ last.outcome = "ok" /\ last.error = 0)
        => Int64Value(WidenToInt64(last.value.int)) = last.result

\* C9: the source is constructed with the Progress callback given to open, so
\* a scan on a handle opened with a callback that returns non-zero is
\* cancelled and the call returns a non-zero status.
C9_ProgressCancelsScan ==
    (last.op \in ScanOps /\ last.scan /\ supplied[last.h] = "cancel")
        => /\ source[last.h].Progress = supplied[last.h]
           /\ last.error # 0

\* C10: a handle becomes Opened only by a successful open, becomes Closed only
\* by close, stays Closed once Closed, and no other entry point changes the
\* lifecycle state of any handle.
C10_Lifecycle ==
    [][ /\ \A h \in Handles :
              /\ handles[h] = "Closed" => handles'[h] = "Closed"
              /\ (handles[h] # "Opened" /\ handles'[h] = "Opened")
                     => /\ handles[h] = "Unborn"
                        /\ last'.op = "new" /\ last'.h = h
                        /\ last'.outcome = "ok" /\ last'.error = 0
              /\ (handles[h] = "Opened" /\ handles'[h] # "Opened")
                     => /\ handles'[h] = "Closed"
                        /\ last'.op = "delete" /\ last'.h = h
        /\ last'.op \notin {"new", "delete"} => handles' = handles ]_vars

C10_Witness ==
    /\ last.op = "GetTrack"
    /\ last.error = 2
    /\ \E h, g \in Handles : handles[h] = "Closed" /\ handles[g] = "Opened"

====
